---- MODULE Spec2Model ----
(***************************************************************************)
(* Kalah-rule Mancala: the rules engine of src/src/mancala/mancala.py.     *)
(* A Mancala object is a record with the fields __init__ sets; every       *)
(* method is an operator from the object (and its arguments) to the object *)
(* after the call together with what the call returned or raised.         *)
(* The board is a function on 0..size-1, indexed as the Python list is.   *)
(***************************************************************************)
EXTENDS Integers, Sequences, FiniteSets, TLC

\* state: the Mancala object the callers hold (ui.py line 263, simulate_ai.py
\*        line 73); initial_stones: the stones_per_pit it was constructed with;
\* last:  the latest call on it: the method, the object before the call, the
\*        arguments, what it returned or raised;
\* moves: the number of successful make_move calls so far;
\* ui:    the MancalaUI object and the threads of ui.py: the fields running,
\*        play_mode, animating and anim_queue, the position of the main
\*        loop, and the worker threads alive with their locals. It is NoUI
\*        where the callers are not the UI.
VARIABLES state, initial_stones, last, moves, ui

vars == <<state, initial_stones, last, moves, ui>>

(* ---------------------------------------------------------------- bounds *)

\* new games explored besides the default one: 1..MaxPits pits, 0..MaxStones stones
MaxPits == 2
MaxStones == 3
\* successful moves played in one game of at most MaxPits pits per side
MaxMoves == 7
\* successful moves played from the default new game
MaxDefaultMoves == 3
\* hand-built positions (a board assigned directly, as clone_state does):
\* 1..AnyPits pits per side, at most AnyTotal stones on the board
AnyPits == 3
AnyTotal == 3
\* the depths choose_best_move and alpha_beta are called with: up to MaxDepth
MaxDepth == 2
\* the moves played between searches: up to MaxSearchMoves
MaxSearchMoves == 3
\* the hand-built positions searched: up to SearchPits pits a side and
\* SearchTotal stones
SearchPits == 2
SearchTotal == 3
\* the times a search is repeated on the same position: up to MaxRepeats
MaxRepeats == 2
\* the UI: the games it runs besides the default one have up to UIPits pits a
\* side and UIStones stones a pit; up to MaxUIMoves moves are started in one
\* run on such a game and MaxUIDefaultMoves on the default one; the AI
\* searches with depth abp_depth
UIPits == 2
UIStones == 3
MaxUIMoves == 2
MaxUIDefaultMoves == 1
abp_depth == 1
\* a large new game, of LargePits pits a side and LargeStones stones a pit; on
\* it and on the other new games, the moves that lift up to MaxSown stones
LargeStones == 45455
LargePits == 1
MaxSown == 12

(* ------------------------------------------------------ program constants *)

DefaultStones == 4
DefaultPits == 6
\* alpha_beta_pruning.py lines 15-17
WIN_SCORE == 999999
LOSE_SCORE == -999999
DRAW_SCORE == 0
\* math.inf: above every score evaluate returns, as -math_inf is below
math_inf == WIN_SCORE + 1

(* ---------------------------------------------------------------- helpers *)

\* Python range(lo, hi)
range(lo, hi) == lo .. (hi - 1)

\* Python sum(b[i] for i in range(lo, hi))
RECURSIVE sum(_, _, _)
sum(b, lo, hi) == IF lo >= hi THEN 0 ELSE b[lo] + sum(b, lo + 1, hi)

\* the elements of a list
Elems(s) == {s[k] : k \in 1 .. Len(s)}

(* ------------------------------------------------------------ class Mancala *)

Mancala(stones_per_pit, pits_per_player) ==
    [pits |-> pits_per_player,
     board |-> [i \in 0 .. (2 * pits_per_player + 1) |->
                  IF i = pits_per_player \/ i = 2 * pits_per_player + 1
                  THEN 0 ELSE stones_per_pit],
     current_player |-> 0,
     player0_house |-> pits_per_player,
     player1_house |-> 2 * pits_per_player + 1,
     size |-> 2 * pits_per_player + 2]

\* [i for i in range(lo, hi) if self.board[i] > 0]
RECURSIVE pits_with_stones(_, _, _)
pits_with_stones(self, lo, hi) ==
    IF lo >= hi THEN <<>>
    ELSE (IF self.board[lo] > 0 THEN <<lo>> ELSE <<>>)
         \o pits_with_stones(self, lo + 1, hi)

\* a plausible slip: player 1's range starts at player 0's house
legal_moves_from_house(self) ==
    IF self.current_player = 0
    THEN pits_with_stones(self, 0, self.player0_house)
    ELSE pits_with_stones(self, self.player0_house, self.player1_house)

legal_moves(self) ==
    IF self.current_player = 0
    THEN pits_with_stones(self, 0, self.player0_house)
    ELSE pits_with_stones(self, self.player0_house + 1, self.player1_house)

\* all(self.board[i] == 0 for i in range(lo, hi))
side_empty(self, lo, hi) == \A i \in range(lo, hi) : self.board[i] = 0

\* a plausible slip: the game is over only when both sides are empty
one_side_empty_and(self) ==
    LET side1_empty == side_empty(self, 0, self.player0_house)
        side2_empty == side_empty(self, self.player0_house + 1, self.player1_house)
    IN  side1_empty /\ side2_empty

\* lines 99-102: side1_empty or side2_empty
one_side_empty(self) ==
    LET side1_empty == side_empty(self, 0, self.player0_house)
        side2_empty == side_empty(self, self.player0_house + 1, self.player1_house)
    IN  side1_empty \/ side2_empty

\* a plausible slip: the stones are added to the houses and left in the pits
collect_keeps_pits(self) ==
    LET b0 == self.board
        b1 == [b0 EXCEPT ![self.player0_house] =
                  @ + sum(b0, 0, self.player0_house)]
        b2 == [b1 EXCEPT ![self.player1_house] =
                  @ + sum(b1, self.player0_house + 1, self.player1_house)]
    IN  [self EXCEPT !.board = b2]

\* lines 104-109: collect remaining stones into houses, zero the pits
collect(self) ==
    LET b0 == self.board
        b1 == [b0 EXCEPT ![self.player0_house] =
                  @ + sum(b0, 0, self.player0_house)]
        b2 == [b1 EXCEPT ![self.player1_house] =
                  @ + sum(b1, self.player0_house + 1, self.player1_house)]
        b3 == [i \in DOMAIN b2 |->
                  IF i \in range(0, self.player0_house) THEN 0 ELSE b2[i]]
        b4 == [i \in DOMAIN b3 |->
                  IF i \in range(self.player0_house + 1, self.player1_house)
                  THEN 0 ELSE b3[i]]
    IN  [self EXCEPT !.board = b4]

\* a plausible slip: the end of the game is reported, the pits are left alone
check_game_over_reports_only(self) ==
    IF one_side_empty(self)
    THEN [self |-> self, ret |-> TRUE]
    ELSE [self |-> self, ret |-> FALSE]

\* lines 95-111
check_game_over(self) ==
    IF one_side_empty(self)
    THEN [self |-> collect(self), ret |-> TRUE]
    ELSE [self |-> self, ret |-> FALSE]

\* a plausible slip: any non-empty pit, of either side, is accepted
invalid_move_any_side(self, pit_index) ==
    ~(/\ pit_index \in range(0, self.player0_house)
                       \cup range(self.player0_house + 1, self.player1_house)
      /\ self.board[pit_index] > 0)

\* line 46: pit_index not in self.legal_moves()
invalid_move(self, pit_index) == pit_index \notin Elems(legal_moves(self))

\* a plausible slip: the sowing loop without the two `continue` tests
RECURSIVE sow_no_skip(_, _, _)
sow_no_skip(self, idx, stones) ==
    IF stones > 0
    THEN LET nxt == (idx + 1) % self.size
         IN  sow_no_skip([self EXCEPT !.board[nxt] = @ + 1], nxt, stones - 1)
    ELSE [self |-> self, idx |-> idx]

\* a plausible slip: the first stone is dropped into the pit it came from
RECURSIVE sow_into_origin(_, _, _)
sow_into_origin(self, idx, stones) ==
    IF stones > 0
    THEN LET nxt == (idx + 1) % self.size
         IN  IF self.current_player = 0 /\ idx = self.player1_house
             THEN sow_into_origin(self, nxt, stones)
             ELSE IF self.current_player = 1 /\ idx = self.player0_house
             THEN sow_into_origin(self, nxt, stones)
             ELSE IF stones = 1
             THEN [self |-> [self EXCEPT !.board[idx] = @ + 1], idx |-> idx]
             ELSE sow_into_origin([self EXCEPT !.board[idx] = @ + 1], nxt,
                                  stones - 1)
    ELSE [self |-> self, idx |-> idx]

\* lines 54-65: the sowing loop; idx is the cursor, stones the stones in hand.
\* The result is the object after the loop and the index of the last stone.
RECURSIVE sow(_, _, _)
sow(self, idx, stones) ==
    IF stones > 0
    THEN LET nxt == (idx + 1) % self.size
         IN  IF self.current_player = 0 /\ nxt = self.player1_house
             THEN sow(self, nxt, stones)
             ELSE IF self.current_player = 1 /\ nxt = self.player0_house
             THEN sow(self, nxt, stones)
             ELSE sow([self EXCEPT !.board[nxt] = @ + 1], nxt, stones - 1)
    ELSE [self |-> self, idx |-> idx]

\* a plausible slip: the callback is made before the stone is put down
RECURSIVE sow_animated_too_early(_, _, _, _)
sow_animated_too_early(self, idx, stones, calls) ==
    IF stones > 0
    THEN LET nxt == (idx + 1) % self.size
         IN  IF self.current_player = 0 /\ nxt = self.player1_house
             THEN sow_animated_too_early(self, nxt, stones, calls)
             ELSE IF self.current_player = 1 /\ nxt = self.player0_house
             THEN sow_animated_too_early(self, nxt, stones, calls)
             ELSE sow_animated_too_early(
                      [self EXCEPT !.board[nxt] = @ + 1], nxt, stones - 1,
                      Append(calls, [board |-> self.board, idx |-> nxt]))
    ELSE [self |-> self, idx |-> idx, calls |-> calls]

\* lines 54-65 with an animate_callback that leaves the board alone: the
\* sowing loop, and in `calls` the arguments of each call of the callback,
\* (self.board, idx) as they are when line 64 makes it
RECURSIVE sow_animated(_, _, _, _)
sow_animated(self, idx, stones, calls) ==
    IF stones > 0
    THEN LET nxt == (idx + 1) % self.size
             placed == [self EXCEPT !.board[nxt] = @ + 1]
         IN  IF self.current_player = 0 /\ nxt = self.player1_house
             THEN sow_animated(self, nxt, stones, calls)
             ELSE IF self.current_player = 1 /\ nxt = self.player0_house
             THEN sow_animated(self, nxt, stones, calls)
             ELSE sow_animated(placed, nxt, stones - 1,
                               Append(calls, [board |-> placed.board,
                                              idx |-> nxt]))
    ELSE [self |-> self, idx |-> idx, calls |-> calls]

\* a plausible slip: both branches test player 0's house
extra_turn_house0(self, idx) ==
    IF self.current_player = 0 /\ idx = self.player0_house THEN TRUE
    ELSE IF self.current_player = 1 /\ idx = self.player0_house THEN TRUE
    ELSE FALSE

\* lines 68-72: the last stone landed in the mover's own house
extra_turn(self, idx) ==
    IF self.current_player = 0 /\ idx = self.player0_house THEN TRUE
    ELSE IF self.current_player = 1 /\ idx = self.player1_house THEN TRUE
    ELSE FALSE

\* a plausible slip: the capturing stone itself is not banked
take_opposite_drops_stone(self, idx, house) ==
    LET opposite_idx == self.player1_house - 1 - idx
        captured == self.board[opposite_idx]
    IN  IF captured > 0
        THEN [self EXCEPT !.board =
                 [[[self.board EXCEPT ![house] = @ + captured]
                                EXCEPT ![idx] = 0]
                                EXCEPT ![opposite_idx] = 0]]
        ELSE self

\* a plausible slip: the opposite pit is one index off
take_opposite_off_by_one(self, idx, house) ==
    LET opposite_idx == self.player1_house - idx
        captured == self.board[opposite_idx]
    IN  IF captured > 0
        THEN [self EXCEPT !.board =
                 [[[self.board EXCEPT ![house] = @ + captured + 1]
                                EXCEPT ![idx] = 0]
                                EXCEPT ![opposite_idx] = 0]]
        ELSE self

\* a plausible slip: the test captured > 0 is missing
take_opposite_unguarded(self, idx, house) ==
    LET opposite_idx == self.player1_house - 1 - idx
        captured == self.board[opposite_idx]
    IN  [self EXCEPT !.board =
            [[[self.board EXCEPT ![house] = @ + captured + 1]
                           EXCEPT ![idx] = 0]
                           EXCEPT ![opposite_idx] = 0]]

\* lines 76-81 and 83-88: the capture into `house` from landing pit idx
take_opposite(self, idx, house) ==
    LET opposite_idx == self.player1_house - 1 - idx
        captured == self.board[opposite_idx]
    IN  IF captured > 0
        THEN [self EXCEPT !.board =
                 [[[self.board EXCEPT ![house] = @ + captured + 1]
                                EXCEPT ![idx] = 0]
                                EXCEPT ![opposite_idx] = 0]]
        ELSE self

\* a plausible slip: player 0's range test stops one pit short
capture_misses_last_pit(self, idx) ==
    IF self.current_player = 0 /\ 0 <= idx /\ idx < self.player0_house - 1
       /\ self.board[idx] = 1
    THEN take_opposite(self, idx, self.player0_house)
    ELSE IF self.current_player = 1 /\ self.player0_house + 1 <= idx
            /\ idx <= self.player1_house - 1 /\ self.board[idx] = 1
    THEN take_opposite(self, idx, self.player1_house)
    ELSE self

\* a plausible slip: each capture is banked in the other player's house
capture_into_wrong_house(self, idx) ==
    IF self.current_player = 0 /\ 0 <= idx /\ idx <= self.player0_house - 1
       /\ self.board[idx] = 1
    THEN take_opposite(self, idx, self.player1_house)
    ELSE IF self.current_player = 1 /\ self.player0_house + 1 <= idx
            /\ idx <= self.player1_house - 1 /\ self.board[idx] = 1
    THEN take_opposite(self, idx, self.player0_house)
    ELSE self

\* lines 73-88: the capture rule, in the branch without an extra turn
capture(self, idx) ==
    IF self.current_player = 0 /\ 0 <= idx /\ idx <= self.player0_house - 1
       /\ self.board[idx] = 1
    THEN take_opposite(self, idx, self.player0_house)
    ELSE IF self.current_player = 1 /\ self.player0_house + 1 <= idx
            /\ idx <= self.player1_house - 1 /\ self.board[idx] = 1
    THEN take_opposite(self, idx, self.player1_house)
    ELSE self

\* a plausible slip: the side switches after every move
switch_player_always(self, extra) ==
    [self EXCEPT !.current_player = 1 - self.current_player]

\* lines 90-91
switch_player(self, extra) ==
    IF ~extra THEN [self EXCEPT !.current_player = 1 - self.current_player]
    ELSE self

\* a plausible slip: the pit is emptied (lines 49-50) before the test
raise_after_emptying(self, pit_index) ==
    [raised |-> TRUE,
     self |-> IF pit_index \in DOMAIN self.board
              THEN [self EXCEPT !.board[pit_index] = 0] ELSE self]

\* lines 46-47: the call raises ValueError before anything is assigned
raise_invalid(self, pit_index) ==
    [raised |-> TRUE, self |-> self]

\* lines 49-93: the move itself. Besides the object after the call and the
\* value returned, the record keeps the locals of the call: the board after
\* the sowing loop, the landing index, the flag extra_turn and the object
\* handed to check_game_over.
apply_move(self, pit_index) ==
    LET stones == self.board[pit_index]
        emptied == [self EXCEPT !.board[pit_index] = 0]
        sown == sow(emptied, pit_index, stones)
        extra == extra_turn(sown.self, sown.idx)
        landed == IF extra THEN sown.self ELSE capture(sown.self, sown.idx)
        turned == switch_player(landed, extra)
        over == check_game_over(turned)
    IN  [raised |-> FALSE, self |-> over.self, ret |-> over.ret,
         stones |-> stones, sown |-> sown.self, idx |-> sown.idx,
         extra_turn |-> extra, landed |-> landed, turned |-> turned]

\* lines 46-93 called with an animate_callback: the move and the calls of
\* the callback it made
make_move_animated(self, pit_index) ==
    IF invalid_move(self, pit_index)
    THEN [raised |-> TRUE, self |-> self, calls |-> <<>>]
    ELSE LET stones == self.board[pit_index]
             emptied == [self EXCEPT !.board[pit_index] = 0]
             sown == sow_animated(emptied, pit_index, stones, <<>>)
             extra == extra_turn(sown.self, sown.idx)
             landed == IF extra THEN sown.self ELSE capture(sown.self, sown.idx)
             turned == switch_player(landed, extra)
             over == check_game_over(turned)
         IN  [raised |-> FALSE, self |-> over.self, ret |-> over.ret,
              stones |-> stones, emptied |-> emptied, calls |-> sown.calls]

make_move(self, pit_index) ==
    IF invalid_move(self, pit_index)
    THEN raise_invalid(self, pit_index)
    ELSE apply_move(self, pit_index)

\* a plausible slip: the game counts as over only with both sides empty
not_over_and(self) ==
    LET side1_empty == side_empty(self, 0, self.player0_house)
        side2_empty == side_empty(self, self.player0_house + 1, self.player1_house)
    IN  ~(side1_empty /\ side2_empty)

\* lines 119-122: not (side1_empty or side2_empty)
not_over(self) ==
    LET side1_empty == side_empty(self, 0, self.player0_house)
        side2_empty == side_empty(self, self.player0_house + 1, self.player1_house)
    IN  ~(side1_empty \/ side2_empty)

\* a plausible slip: the totals are the houses alone (as in the fallback of
\* simulate_ai.py lines 83-84)
get_winner_houses_only(self) ==
    LET final_p0 == self.board[self.player0_house]
        final_p1 == self.board[self.player1_house]
    IN  IF not_over(self)
        THEN [raised |-> TRUE, self |-> self]
        ELSE [raised |-> FALSE, self |-> self,
              ret |-> IF final_p0 > final_p1 THEN 0
                      ELSE IF final_p1 > final_p0 THEN 1 ELSE -1]

\* lines 113-133; ret is 0, 1 or -1
get_winner(self) ==
    LET final_p0 == self.board[self.player0_house]
                    + sum(self.board, 0, self.player0_house)
        final_p1 == self.board[self.player1_house]
                    + sum(self.board, self.player0_house + 1, self.player1_house)
    IN  IF not_over(self)
        THEN [raised |-> TRUE, self |-> self]
        ELSE [raised |-> FALSE, self |-> self,
              ret |-> IF final_p0 > final_p1 THEN 0
                      ELSE IF final_p1 > final_p0 THEN 1 ELSE -1]

(* ------------------------------------------- algorithm/alpha_beta_pruning *)
\* The parameter the source calls `state` is written `node` here.

\* a plausible slip: the house difference is not weighted
heuristic_unweighted(node, player) ==
    LET p0_house == node.board[node.player0_house]
        p1_house == node.board[node.player1_house]
        house_diff == IF player = 0 THEN p0_house - p1_house
                      ELSE p1_house - p0_house
        board_p0 == sum(node.board, 0, node.player0_house)
        board_p1 == sum(node.board, node.player0_house + 1, node.player1_house)
        side_diff == IF player = 0 THEN board_p0 - board_p1
                     ELSE board_p1 - board_p0
    IN  house_diff + side_diff

\* lines 38-51: the score of a position that is not over
heuristic(node, player) ==
    LET p0_house == node.board[node.player0_house]
        p1_house == node.board[node.player1_house]
        house_diff == IF player = 0 THEN p0_house - p1_house
                      ELSE p1_house - p0_house
        board_p0 == sum(node.board, 0, node.player0_house)
        board_p1 == sum(node.board, node.player0_house + 1, node.player1_house)
        side_diff == IF player = 0 THEN board_p0 - board_p1
                     ELSE board_p1 - board_p0
    IN  house_diff * 10 + side_diff

\* lines 20-51. state.check_game_over() is called on the argument itself, so
\* the record gives the argument after the call beside the score.
evaluate(node, player) ==
    LET over == check_game_over(node)
        winner == get_winner(over.self).ret
    IN  [self |-> over.self,
         ret |-> IF over.ret
                 THEN (IF winner = player THEN WIN_SCORE
                       ELSE IF winner = -1 THEN DRAW_SCORE
                       ELSE LOSE_SCORE)
                 ELSE heuristic(over.self, player)]

\* a plausible slip: new.board = state.board, without .copy()
clone_state_shares_board(node) ==
    [new |-> [Mancala(0, node.pits) EXCEPT
                 !.board = node.board,
                 !.current_player = node.current_player,
                 !.player0_house = node.player0_house,
                 !.player1_house = node.player1_house],
     board_shared |-> TRUE]

\* lines 54-65. new is the copy; board_shared tells whether new.board is the
\* list object of node.board, so that writing one writes the other:
\* state.board.copy() (line 61) makes a list of its own.
clone_state(node) ==
    [new |-> [Mancala(0, node.pits) EXCEPT
                 !.board = node.board,
                 !.current_player = node.current_player,
                 !.player0_house = node.player0_house,
                 !.player1_house = node.player1_house],
     board_shared |-> FALSE]

\* a plausible slip: the cut-off fires within a margin of one house stone
cut_off_with_margin(alpha, beta) == alpha + 10 >= beta

\* lines 109 and 127: alpha >= beta
cut_off(alpha, beta) == alpha >= beta

\* A local of the source is written CHOOSE r \in {... : local \in {value}} :
\* TRUE, the one element of a one-element set: the value is computed once,
\* where the source assigns it, and the text after it reads it.

\* a plausible slip: the flag alternates, whoever moves next
child_of_alternating(node, move, depth, player) ==
    LET child == make_move(clone_state(node).new, move).self
    IN  [node |-> child,
         next_max |-> node.current_player # player,
         new_depth |-> IF child.current_player = node.current_player
                       THEN depth ELSE depth - 1]

\* a plausible slip: every move costs one unit of depth
child_of_always_decrements(node, move, depth, player) ==
    LET child == make_move(clone_state(node).new, move).self
    IN  [node |-> child,
         next_max |-> child.current_player = player,
         new_depth |-> depth - 1]

\* lines 97-103 (116-121, 148-152): the child of `node` by `move`, with the
\* flag and the depth it is searched with
child_of(node, move, depth, player) ==
    LET child == make_move(clone_state(node).new, move).self
    IN  [node |-> child,
         next_max |-> child.current_player = player,
         new_depth |-> IF child.current_player = node.current_player
                       THEN depth ELSE depth - 1]

\* lines 68-129. The value returned. max_loop and min_loop are the two for
\* loops after the k-th move of `legal`: the loop's locals value, alpha and
\* beta, and whether the loop has left by break.
RECURSIVE alpha_beta(_, _, _, _, _, _)
RECURSIVE max_loop(_, _, _, _, _, _, _)
RECURSIVE min_loop(_, _, _, _, _, _, _)

\* lines 105-110: the locals after a pass that found `score`
max_update(at, score) ==
    LET value == IF score > at.value THEN score ELSE at.value
        alpha == IF value > at.alpha THEN value ELSE at.alpha
    IN  [value |-> value, alpha |-> alpha, beta |-> at.beta,
         broke |-> cut_off(alpha, at.beta)]

\* lines 97-110: one pass of the maximizing loop, from the locals `at`
max_pass(node, move, depth, at, player) ==
    CHOOSE r \in {max_update(at, score)
        : score \in UNION {{alpha_beta(c.node, c.new_depth, at.alpha, at.beta,
                                       c.next_max, player)}
                           : c \in {child_of(node, move, depth, player)}}} : TRUE

max_loop(node, legal, k, depth, alpha, beta, player) ==
    IF k = 0
    THEN [value |-> 0 - math_inf, alpha |-> alpha, beta |-> beta, broke |-> FALSE]
    ELSE CHOOSE r \in {IF at.broke THEN at
                       ELSE max_pass(node, legal[k], depth, at, player)
             : at \in {max_loop(node, legal, k - 1, depth, alpha, beta, player)}}
             : TRUE

\* lines 123-128: the locals after a pass that found `score`
min_update(at, score) ==
    LET value == IF score < at.value THEN score ELSE at.value
        beta == IF value < at.beta THEN value ELSE at.beta
    IN  [value |-> value, alpha |-> at.alpha, beta |-> beta,
         broke |-> cut_off(at.alpha, beta)]

\* lines 116-128: one pass of the minimizing loop
min_pass(node, move, depth, at, player) ==
    CHOOSE r \in {min_update(at, score)
        : score \in UNION {{alpha_beta(c.node, c.new_depth, at.alpha, at.beta,
                                       c.next_max, player)}
                           : c \in {child_of(node, move, depth, player)}}} : TRUE

min_loop(node, legal, k, depth, alpha, beta, player) ==
    IF k = 0
    THEN [value |-> math_inf, alpha |-> alpha, beta |-> beta, broke |-> FALSE]
    ELSE CHOOSE r \in {IF at.broke THEN at
                       ELSE min_pass(node, legal[k], depth, at, player)
             : at \in {min_loop(node, legal, k - 1, depth, alpha, beta, player)}}
             : TRUE

alpha_beta(node, depth, alpha, beta, maximizing, player) ==
    CHOOSE r \in {
        IF depth = 0 \/ over.ret \/ legal_moves(over.self) = <<>>
        THEN evaluate(over.self, player).ret
        ELSE IF maximizing
        THEN max_loop(over.self, legal_moves(over.self),
                      Len(legal_moves(over.self)), depth, alpha, beta,
                      player).value
        ELSE min_loop(over.self, legal_moves(over.self),
                      Len(legal_moves(over.self)), depth, alpha, beta,
                      player).value
      : over \in {IF depth = 0 THEN [self |-> node, ret |-> FALSE]
                  ELSE check_game_over(node)}} : TRUE

\* the argument of alpha_beta after the call: lines 87-92 call
\* check_game_over on it, directly or inside evaluate; the loops work on clones
alpha_beta_call(node, depth, alpha, beta, maximizing, player) ==
    [self |-> IF depth = 0 THEN evaluate(node, player).self
              ELSE check_game_over(node).self,
     ret |-> alpha_beta(node, depth, alpha, beta, maximizing, player)]

\* a plausible slip: a later move replaces the best one on an equal score
better_or_equal(score, best_score) == score >= best_score

\* line 155: score > best_score
better(score, best_score) == score > best_score

\* a plausible slip: the best score starts at the draw score
initial_best_score_draw == DRAW_SCORE

\* a plausible slip: best_score lives at module level and a call after a
\* search starts from what that search left instead of from -math.inf
initial_best_score_kept ==
    IF last.op \in {"choose_best_move", "choose_best_move_again"}
    THEN DRAW_SCORE ELSE 0 - math_inf

\* line 145: best_score = -math.inf
initial_best_score == 0 - math_inf

\* lines 155-157: the locals after a pass that found `score`. self is the
\* caller's object: a clone whose board is shared with it has written the
\* move into its board.
choose_update(at, move, child, score) ==
    [self |-> IF clone_state(at.self).board_shared
              THEN [at.self EXCEPT !.board = child.board] ELSE at.self,
     best_move |-> IF better(score, at.best_score) THEN <<move>> ELSE at.best_move,
     best_score |-> IF better(score, at.best_score) THEN score ELSE at.best_score]

\* lines 148-157: one pass of the loop of choose_best_move, from the locals
\* `at`. best_move is <<>> for None and <<m>> for move m.
choose_pass(move, depth, player, at) ==
    CHOOSE r \in UNION {{choose_update(at, move, c.node, score)
        : score \in {alpha_beta(c.node, c.new_depth, 0 - math_inf, math_inf,
                                c.next_max, player)}}
        : c \in {child_of(at.self, move, depth, player)}} : TRUE

\* lines 144-157: the locals after the k-th move of `legal`
RECURSIVE choose_loop(_, _, _, _, _)
choose_loop(node, legal, k, depth, player) ==
    IF k = 0
    THEN [self |-> node, best_move |-> <<>>, best_score |-> initial_best_score]
    ELSE CHOOSE r \in {choose_pass(legal[k], depth, player, at)
             : at \in {choose_loop(node, legal, k - 1, depth, player)}} : TRUE

\* lines 132-159
choose_best_move(node, depth) ==
    IF legal_moves(node) = <<>> THEN [self |-> node, ret |-> <<>>]
    ELSE CHOOSE r \in {[self |-> end.self, ret |-> end.best_move]
             : end \in {choose_loop(node, legal_moves(node),
                                    Len(legal_moves(node)), depth,
                                    node.current_player)}} : TRUE

(* ------------------------------------------------------------ the machine *)

\* the games a caller starts: the default Mancala() and the small ones
NewGames ==
    {<<DefaultStones, DefaultPits>>}
    \cup {<<s, p>> : s \in 0 .. MaxStones, p \in 1 .. MaxPits}

\* the boards of p pits per side holding n stones in all, cell by cell
RECURSIVE Boards(_, _)
Boards(cells, n) ==
    IF cells = 0 THEN (IF n = 0 THEN {<<>>} ELSE {})
    ELSE UNION {{Append(b, k) : b \in Boards(cells - 1, n - k)} : k \in 0 .. n}

\* positions built by assigning board and current_player of a fresh object,
\* the way clone_state does (alpha_beta_pruning.py lines 60-62)
AnyStates ==
    UNION {UNION {{[[Mancala(0, p) EXCEPT !.board = [i \in 0 .. (2 * p + 1) |-> b[i + 1]]]
                      EXCEPT !.current_player = c]
                    : b \in Boards(2 * p + 2, n), c \in {0, 1}}
                  : n \in 0 .. AnyTotal}
           : p \in 1 .. AnyPits}

\* the hand-built positions the search is called on
SearchStates ==
    UNION {UNION {{[[Mancala(0, p) EXCEPT !.board = [i \in 0 .. (2 * p + 1) |-> b[i + 1]]]
                      EXCEPT !.current_player = c]
                    : b \in Boards(2 * p + 2, n), c \in {0, 1}}
                  : n \in 0 .. SearchTotal}
           : p \in 1 .. SearchPits}

MoveBudget(self) == IF self.pits > MaxPits THEN MaxDefaultMoves ELSE MaxMoves

\* the stones in the pits of both sides
SideStones(self) ==
    sum(self.board, 0, self.player0_house)
    + sum(self.board, self.player0_house + 1, self.player1_house)

\* whether the call before this one ended in check_game_over, and its result
\* and whether that check_game_over changed the board
Ended(l, now) ==
    IF l.op = "check_game_over"
    THEN [by_check |-> TRUE, ret |-> l.ret, swept |-> l.pre.board # now.board]
    ELSE IF l.op = "make_move" /\ ~l.raised
    THEN [by_check |-> TRUE, ret |-> l.ret,
          swept |-> l.call.turned.board # now.board]
    ELSE [by_check |-> FALSE, ret |-> FALSE, swept |-> FALSE]

\* no MancalaUI was constructed
NoUI == [running |-> FALSE]

Init ==
    /\ \E g \in NewGames : /\ initial_stones = g[1]
                            /\ state = Mancala(g[1], g[2])
    /\ last = [op |-> "new", pre |-> state]
    /\ moves = 0
    /\ ui = NoUI

InitAny ==
    /\ initial_stones = 0
    /\ state \in AnyStates
    /\ last = [op |-> "new", pre |-> state]
    /\ moves = 0
    /\ ui = NoUI

LegalMoves ==
    /\ state' = state
    /\ last' = [op |-> "legal_moves", pre |-> state, ret |-> legal_moves(state)]
    /\ UNCHANGED <<initial_stones, moves, ui>>

MakeMove ==
    \E pit_index \in -1 .. state.size :
        LET r == make_move(state, pit_index)
        IN  /\ r.raised \/ moves < MoveBudget(state)
            /\ state' = r.self
            /\ last' = [op |-> "make_move", pre |-> state,
                        pit_index |-> pit_index, call |-> r,
                        raised |-> r.raised,
                        ret |-> IF r.raised THEN FALSE ELSE r.ret]
            /\ moves' = IF r.raised THEN moves ELSE moves + 1
            /\ UNCHANGED <<initial_stones, ui>>

CheckGameOver ==
    LET r == check_game_over(state)
    IN  /\ state' = r.self
        /\ last' = [op |-> "check_game_over", pre |-> state, ret |-> r.ret,
                    prev |-> Ended(last, state)]
        /\ UNCHANGED <<initial_stones, moves, ui>>

GetWinner ==
    LET r == get_winner(state)
    IN  /\ state' = r.self
        /\ last' = [op |-> "get_winner", pre |-> state, raised |-> r.raised,
                    ret |-> IF r.raised THEN -1 ELSE r.ret]
        /\ UNCHANGED <<initial_stones, moves, ui>>

Next == LegalMoves \/ MakeMove \/ CheckGameOver \/ GetWinner

Spec == Init /\ [][Next]_vars

SpecAny == InitAny /\ [][Next]_vars

\* the depths choose_best_move is called with. With depth 0 the children of
\* the root are searched with depth -1, which no test of line 87 stops: the
\* search then runs to the end of the game, so it is called so only on
\* positions of at most SearchTotal stones in the pits.
Depths(self) ==
    IF SideStones(self) <= SearchTotal THEN 0 .. MaxDepth ELSE 1 .. MaxDepth

\* the search starts on a small new game or on a hand-built position
InitSearch ==
    \/ /\ Init
       /\ state.pits <= MaxPits
    \/ /\ initial_stones = 0
       /\ state \in SearchStates
       /\ last = [op |-> "new", pre |-> state]
       /\ moves = 0
       /\ ui = NoUI

\* the search is called on a position as it was set up or as a move left it
\* (simulate_ai.py lines 75-78: choose_best_move, then make_move)
Searchable == last.op \in {"new", "make_move"}

\* a move the caller found in legal_moves (ui.py lines 351-352)
PlayLegal ==
    \E pit_index \in Elems(legal_moves(state)) :
        LET r == make_move(state, pit_index)
        IN  /\ moves < MaxSearchMoves
            /\ state' = r.self
            /\ last' = [op |-> "make_move", pre |-> state,
                        pit_index |-> pit_index, call |-> r,
                        raised |-> r.raised,
                        ret |-> IF r.raised THEN FALSE ELSE r.ret]
            /\ moves' = moves + 1
            /\ UNCHANGED <<initial_stones, ui>>

Evaluate ==
    \E player \in {0, 1} :
        LET r == evaluate(state, player)
        IN  /\ Searchable
            /\ state' = r.self
            /\ last' = [op |-> "evaluate", pre |-> state, player |-> player,
                        ret |-> r.ret]
            /\ UNCHANGED <<initial_stones, moves, ui>>

AlphaBeta ==
    \E depth \in 0 .. MaxDepth, maximizing \in BOOLEAN, player \in {0, 1} :
        LET r == alpha_beta_call(state, depth, 0 - math_inf, math_inf,
                                 maximizing, player)
        IN  /\ Searchable
            /\ state' = r.self
            /\ last' = [op |-> "alpha_beta", pre |-> state, depth |-> depth,
                        maximizing |-> maximizing, player |-> player,
                        ret |-> r.ret]
            /\ UNCHANGED <<initial_stones, moves, ui>>

ChooseBestMove ==
    \E depth \in Depths(state) :
        LET r == choose_best_move(state, depth)
        IN  /\ Searchable
            /\ state' = r.self
            /\ last' = [op |-> "choose_best_move", pre |-> state,
                        depth |-> depth, ret |-> r.ret]
            /\ UNCHANGED <<initial_stones, moves, ui>>

NextSearch == PlayLegal \/ Evaluate \/ AlphaBeta \/ ChooseBestMove

SpecSearch == InitSearch /\ [][NextSearch]_vars

\* choose_best_move called once more with the depth of the search before, on
\* another object that has the same board and current_player (built as
\* clone_state builds one); `first` is the record of the first search
ChooseBestMoveAgain ==
    LET again == clone_state(state).new
        r == choose_best_move(again, last.depth)
    IN  /\ last.op \in {"choose_best_move", "choose_best_move_again"}
        /\ last.op = "choose_best_move_again" => last.calls < MaxRepeats
        /\ state' = state
        /\ last' = [op |-> "choose_best_move_again", pre |-> again,
                    depth |-> last.depth, ret |-> r.ret,
                    first |-> IF last.op = "choose_best_move" THEN last
                              ELSE last.first,
                    calls |-> IF last.op = "choose_best_move" THEN 1
                              ELSE last.calls + 1]
        /\ UNCHANGED <<initial_stones, moves, ui>>

NextAgain == PlayLegal \/ ChooseBestMove \/ ChooseBestMoveAgain

SpecAgain == InitSearch /\ [][NextAgain]_vars

\* make_move called with an animate_callback (ui.py line 250)
MakeMoveAnimated ==
    \E pit_index \in -1 .. state.size :
        LET r == make_move_animated(state, pit_index)
        IN  /\ r.raised \/ moves < MoveBudget(state)
            /\ state' = r.self
            /\ last' = [op |-> "make_move_animated", pre |-> state,
                        pit_index |-> pit_index, call |-> r,
                        raised |-> r.raised,
                        ret |-> IF r.raised THEN FALSE ELSE r.ret]
            /\ moves' = IF r.raised THEN moves ELSE moves + 1
            /\ UNCHANGED <<initial_stones, ui>>

NextAnimated == MakeMoveAnimated

SpecAnimated == Init /\ [][NextAnimated]_vars

(* ------------------------------------------------------------------ ui.py *)

\* The threads of ui.py are the main loop (run, lines 261-365) and the worker
\* threads started by make_move_async (lines 232-259). They share the Mancala
\* object `state` without a lock (state_lock, line 85, is never taken), so the
\* steps below are the statements of either thread between which the other
\* may run: one step of the main loop is one section of its frame, with
\* check_game_over in two steps (the test and the sums, then the zeroing); one
\* step of a worker is its prologue, the search, the lifting of the stones,
\* one pass of the sowing loop, or the rest of make_move with the 'done' put.

PlayModes == {"HUMAN_VS_HUMAN", "HUMAN_VS_AI", "AI_VS_AI"}

\* mancala.py lines 104-105: the sums of both sides are added to the houses
add_to_houses(self) ==
    LET b0 == self.board
        b1 == [b0 EXCEPT ![self.player0_house] =
                  @ + sum(b0, 0, self.player0_house)]
        b2 == [b1 EXCEPT ![self.player1_house] =
                  @ + sum(b1, self.player0_house + 1, self.player1_house)]
    IN  [self EXCEPT !.board = b2]

\* mancala.py lines 106-109: the pits of both sides are set to 0
zero_pits(self) ==
    [self EXCEPT !.board =
        [i \in DOMAIN self.board |->
            IF i \in range(0, self.player0_house)
                     \cup range(self.player0_house + 1, self.player1_house)
            THEN 0 ELSE self.board[i]]]

\* mancala.py lines 67-93: make_move after the sowing loop ended on idx
move_tail(self, idx) ==
    LET extra == extra_turn(self, idx)
        landed == IF extra THEN self ELSE capture(self, idx)
        turned == switch_player(landed, extra)
    IN  check_game_over(turned).self

\* a plausible slip: line 307 one level out, run for every item of the queue
clears_animating_on_any_item(item) == TRUE

\* ui.py lines 290-307: animating is set to False in the branch of 'done'
clears_animating(item) == item.kind = "done"

\* ui.py lines 272-307: animating after the loop has taken `items` off the queue
RECURSIVE process_queue(_, _)
process_queue(animating, items) ==
    IF items = <<>> THEN animating
    ELSE process_queue(IF clears_animating(Head(items)) THEN FALSE ELSE animating,
                       Tail(items))

\* ui.py line 258: a new thread of worker(clicked), at its first statement.
\* own is whether `state` of run has been rebound since (line 335), so that
\* the object of the worker's closure, kept in self, is no longer the game's.
worker(clicked, is_ai) ==
    [pc |-> "begin", own |-> FALSE, self |-> <<>>, is_ai |-> is_ai,
     move_to_play |-> clicked, before_player |-> -1, before_board |-> <<>>,
     move |-> <<>>, stones |-> 0, idx |-> -1]

\* ui.py lines 232-259 on the main thread
make_move_async(u, clicked, is_ai) ==
    IF u.animating THEN u
    ELSE [u EXCEPT !.animating = TRUE,
                   !.workers = Append(@, worker(clicked, is_ai))]

\* the games the UI runs: Mancala() of line 263, and small ones in its place
UIGames ==
    {<<DefaultStones, DefaultPits>>}
    \cup {<<s, p>> : s \in 1 .. UIStones, p \in 1 .. UIPits}

UIBudget(self) == IF self.pits > UIPits THEN MaxUIDefaultMoves ELSE MaxUIMoves

\* ui.py lines 49-90 and 263-264: the UI constructed and run entered
InitUI ==
    /\ \E g \in UIGames : /\ initial_stones = g[1]
                           /\ state = Mancala(g[1], g[2])
    /\ last = [op |-> "new", pre |-> state]
    /\ moves = 0
    /\ \E play_mode \in PlayModes :
          ui = [running |-> TRUE, play_mode |-> play_mode, animating |-> FALSE,
                anim_queue |-> <<>>, workers |-> <<>>, pc |-> "queue"]

\* the object a worker's closure holds
obj(w) == IF w.own THEN w.self ELSE state

\* a worker is between lifting the stones of its move and the end of make_move
Sowing == \E i \in DOMAIN ui.workers :
              ~ui.workers[i].own /\ ui.workers[i].pc \in {"sow", "finish"}

\* the end of a frame: line 267 tests running; sys.exit (line 365) ends the
\* daemon threads with the process
end_frame(u) ==
    IF u.running THEN [u EXCEPT !.pc = "queue"]
    ELSE [u EXCEPT !.pc = "exited", !.workers = <<>>]

\* ui.py lines 272-307
ProcessQueue ==
    /\ ui.running
    /\ ui.pc = "queue"
    /\ ui' = [ui EXCEPT !.animating = process_queue(ui.animating, ui.anim_queue),
                        !.anim_queue = <<>>,
                        !.pc = "check"]
    /\ last' = [op |-> "queue", items |-> ui.anim_queue]
    /\ UNCHANGED <<state, initial_stones, moves>>

\* ui.py lines 321 and 355, mancala.py lines 99-105
MainCheckGameOver ==
    /\ ui.pc \in {"check", "ai_check"}
    /\ IF one_side_empty(state)
       THEN /\ state' = add_to_houses(state)
            /\ ui' = [ui EXCEPT !.pc = IF ui.pc = "check" THEN "zero"
                                       ELSE "ai_zero"]
       ELSE /\ state' = state
            /\ ui' = [ui EXCEPT !.pc = IF ui.pc = "check" THEN "events"
                                       ELSE "ai"]
    /\ last' = [op |-> "check_game_over", pre |-> state, sowing |-> Sowing]
    /\ UNCHANGED <<initial_stones, moves>>

\* ui.py lines 321 and 355, mancala.py lines 106-110
MainZeroPits ==
    /\ ui.pc \in {"zero", "ai_zero"}
    /\ state' = zero_pits(state)
    /\ ui' = IF ui.pc = "zero" THEN [ui EXCEPT !.pc = "events"]
             ELSE end_frame(ui)
    /\ last' = [op |-> "check_game_over", pre |-> state, sowing |-> Sowing]
    /\ UNCHANGED <<initial_stones, moves>>

\* ui.py line 328 with no event that has an effect
NoEvent ==
    /\ ui.pc = "events"
    /\ ui' = [ui EXCEPT !.pc = "ai_check"]
    /\ last' = [op |-> "event"]
    /\ UNCHANGED <<state, initial_stones, moves>>

\* ui.py lines 329-331
Quit ==
    /\ ui.pc = "events"
    /\ ui.running
    /\ ui' = [ui EXCEPT !.running = FALSE, !.pc = "ai_check"]
    /\ last' = [op |-> "quit"]
    /\ UNCHANGED <<state, initial_stones, moves>>

\* ui.py lines 334-338: `state` is bound to a new game; a worker still alive
\* keeps the object it was started with
Reset ==
    /\ ui.pc = "events"
    /\ ~ui.animating
    /\ state' = Mancala(DefaultStones, DefaultPits)
    /\ initial_stones' = DefaultStones
    /\ ui' = [ui EXCEPT !.pc = "ai_check",
                        !.workers = [i \in DOMAIN ui.workers |->
                            IF ui.workers[i].own THEN ui.workers[i]
                            ELSE [ui.workers[i] EXCEPT !.own = TRUE,
                                                       !.self = state]]]
    /\ last' = [op |-> "reset", alive |-> Len(ui.workers)]
    /\ UNCHANGED moves

\* ui.py lines 340-352: a click on pit `clicked`
Click ==
    \E clicked \in range(0, state.player0_house)
                      \cup range(state.player0_house + 1, state.player1_house) :
        /\ ui.pc = "events"
        /\ \/ ui.play_mode = "HUMAN_VS_HUMAN"
           \/ ui.play_mode = "HUMAN_VS_AI" /\ state.current_player = 0
        /\ ~ui.animating
        /\ clicked \in Elems(legal_moves(state))
        /\ moves < UIBudget(state)
        /\ ui' = [make_move_async(ui, <<clicked>>, FALSE) EXCEPT !.pc = "ai_check"]
        /\ last' = [op |-> "start", alive |-> Len(ui.workers)]
        /\ moves' = moves + 1
        /\ UNCHANGED <<state, initial_stones>>

\* ui.py lines 356-362
AIMoves ==
    /\ ui.pc = "ai"
    /\ IF /\ \/ ui.play_mode = "HUMAN_VS_AI" /\ state.current_player = 1
             \/ ui.play_mode = "AI_VS_AI"
          /\ ~ui.animating
          /\ moves < UIBudget(state)
       THEN /\ ui' = end_frame(make_move_async(ui, <<>>, TRUE))
            /\ last' = [op |-> "start", alive |-> Len(ui.workers)]
            /\ moves' = moves + 1
       ELSE /\ ui' = end_frame(ui)
            /\ last' = [op |-> "ai"]
            /\ moves' = moves
    /\ UNCHANGED <<state, initial_stones>>

\* worker i goes on as w, its object is now o, and it has put `items`
Goes(i, w, o, items) ==
    /\ state' = IF ui.workers[i].own THEN state ELSE o
    /\ ui' = [ui EXCEPT !.workers[i] = IF w.own THEN [w EXCEPT !.self = o] ELSE w,
                        !.anim_queue = @ \o items]

\* worker i has ended, its object is now o, and it has put `items`
Ends(i, o, items) ==
    /\ state' = IF ui.workers[i].own THEN state ELSE o
    /\ ui' = [ui EXCEPT !.workers = [j \in 1 .. (Len(@) - 1) |->
                                        IF j < i THEN @[j] ELSE @[j + 1]],
                        !.anim_queue = @ \o items]

\* ui.py lines 236-237
WorkerBegin ==
    \E i \in DOMAIN ui.workers :
        LET w == ui.workers[i]
        IN  /\ w.pc = "begin"
            /\ Goes(i, [w EXCEPT !.pc = "choose",
                                 !.before_player = obj(w).current_player,
                                 !.before_board = obj(w).board],
                    obj(w), <<>>)
            /\ last' = [op |-> "begin"]
            /\ UNCHANGED <<initial_stones, moves>>

\* ui.py lines 239-246
WorkerChoose ==
    \E i \in DOMAIN ui.workers :
        LET w == ui.workers[i]
            cloned == clone_state(obj(w)).new
        IN  /\ w.pc = "choose"
            /\ Goes(i, [w EXCEPT !.pc = "lift",
                                 !.move = IF w.is_ai /\ w.move_to_play = <<>>
                                          THEN choose_best_move(cloned, abp_depth).ret
                                          ELSE w.move_to_play],
                    obj(w), <<>>)
            /\ last' = [op |-> "choose", pre |-> state, is_ai |-> w.is_ai]
            /\ UNCHANGED <<initial_stones, moves>>

\* ui.py line 250, mancala.py lines 46-51: the ValueError of line 47 ends the
\* thread before it puts 'done'
WorkerLift ==
    \E i \in DOMAIN ui.workers :
        LET w == ui.workers[i]
        IN  /\ w.pc = "lift"
            /\ IF w.move = <<>> \/ invalid_move(obj(w), w.move[1])
               THEN /\ Ends(i, obj(w), <<>>)
                    /\ last' = [op |-> "raised"]
               ELSE /\ Goes(i, [w EXCEPT !.pc = "sow",
                                         !.stones = obj(w).board[w.move[1]],
                                         !.idx = w.move[1]],
                            [obj(w) EXCEPT !.board[w.move[1]] = 0], <<>>)
                    /\ last' = [op |-> "lift"]
            /\ UNCHANGED <<initial_stones, moves>>

\* mancala.py lines 54-65 and ui.py lines 248-249: one stone is put down and
\* its frame is put on the queue
WorkerSow ==
    \E i \in DOMAIN ui.workers :
        LET w == ui.workers[i]
            one == sow_animated(obj(w), w.idx, 1, <<>>)
        IN  /\ w.pc = "sow"
            /\ Goes(i, [w EXCEPT !.pc = IF w.stones > 1 THEN "sow" ELSE "finish",
                                 !.stones = w.stones - 1,
                                 !.idx = one.idx],
                    one.self,
                    <<[kind |-> "frame", board |-> one.calls[1].board,
                       idx |-> one.calls[1].idx]>>)
            /\ last' = [op |-> "sow"]
            /\ UNCHANGED <<initial_stones, moves>>

\* mancala.py lines 67-93 and ui.py lines 252-256
WorkerFinish ==
    \E i \in DOMAIN ui.workers :
        LET w == ui.workers[i]
            after == move_tail(obj(w), w.idx)
        IN  /\ w.pc = "finish"
            /\ Ends(i, after,
                    <<[kind |-> "done", before_player |-> w.before_player,
                       before_board |-> w.before_board,
                       after_board |-> after.board,
                       after_player |-> after.current_player]>>)
            /\ last' = [op |-> "done",
                        pre |-> [obj(w) EXCEPT !.board = w.before_board,
                                               !.current_player = w.before_player],
                        move |-> w.move[1], own |-> w.own, after |-> after]
            /\ UNCHANGED <<initial_stones, moves>>

MainLoop ==
    \/ ProcessQueue
    \/ MainCheckGameOver
    \/ MainZeroPits
    \/ NoEvent
    \/ Quit
    \/ Reset
    \/ Click
    \/ AIMoves

Workers ==
    \/ WorkerBegin
    \/ WorkerChoose
    \/ WorkerLift
    \/ WorkerSow
    \/ WorkerFinish

NextUI == MainLoop \/ Workers

SpecUI == InitUI /\ [][NextUI]_vars

\* The threads are scheduled: the main loop, which line 268 paces at 120
\* frames a second, goes on (weak fairness of MainLoop), and so does a worker
\* thread. A step of Workers is possible exactly when a worker is alive, each
\* of its positions having a next statement, so weak fairness of Workers,
\* WF_vars(Workers), is written with that condition in the place of ENABLED.
WorkersFair == []<>(ui.workers = <<>>) \/ []<><<Workers>>_vars

SpecUIFair == SpecUI /\ WF_vars(MainLoop) /\ WorkersFair

(* ------------------------------------------------------------ large games *)

\* Mancala(stones_per_pit, pits_per_player) takes any two numbers (mancala.py
\* lines 21-27): the new games of NewGames and a large one
LargeGames == NewGames \cup {<<LargeStones, LargePits>>}

InitLarge ==
    /\ \E g \in LargeGames : /\ initial_stones = g[1]
                              /\ state = Mancala(g[1], g[2])
    /\ last = [op |-> "new", pre |-> state]
    /\ moves = 0
    /\ ui = NoUI

\* make_move of a pit that holds up to MaxSown stones, or of an index that is
\* no pit
MakeMoveWithin ==
    \E pit_index \in -1 .. state.size :
        /\ pit_index \in DOMAIN state.board => state.board[pit_index] <= MaxSown
        /\ LET r == make_move(state, pit_index)
           IN  /\ r.raised \/ moves < MoveBudget(state)
               /\ state' = r.self
               /\ last' = [op |-> "make_move", pre |-> state,
                           pit_index |-> pit_index, call |-> r,
                           raised |-> r.raised,
                           ret |-> IF r.raised THEN FALSE ELSE r.ret]
               /\ moves' = IF r.raised THEN moves ELSE moves + 1
               /\ UNCHANGED <<initial_stones, ui>>

NextLarge == MakeMoveWithin \/ CheckGameOver \/ Evaluate

SpecLarge == InitLarge /\ [][NextLarge]_vars

(* ------------------------------------------------------------- properties *)

\* the latest call was a make_move that returned / that raised ValueError
Moved == last.op = "make_move" /\ ~last.raised
Failed == last.op = "make_move" /\ last.raised

\* the layout of the docstring (lines 13-18), stated without the house fields
OwnPits(self, player) ==
    IF player = 0 THEN 0 .. (self.pits - 1)
    ELSE (self.pits + 1) .. (2 * self.pits)
OwnHouse(self, player) == IF player = 0 THEN self.pits ELSE 2 * self.pits + 1
AllPits(self) == OwnPits(self, 0) \cup OwnPits(self, 1)
Total(b) == sum(b, 0, Cardinality(DOMAIN b))
SideTotal(self, player) ==
    IF player = 0 THEN sum(self.board, 0, self.pits)
    ELSE sum(self.board, self.pits + 1, 2 * self.pits + 1)

\* a well-formed board of the game that was started
WellFormed(self) ==
    /\ DOMAIN self.board = 0 .. (2 * self.pits + 1)
    /\ \A i \in DOMAIN self.board : self.board[i] >= 0
    /\ Total(self.board) = 2 * self.pits * initial_stones

\* from `before` to `after` stones only went from pits into houses
OnlyIntoHouses(before, after) ==
    /\ Total(after.board) = Total(before.board)
    /\ \A i \in AllPits(before) : after.board[i] <= before.board[i]
    /\ \A pl \in {0, 1} :
          after.board[OwnHouse(before, pl)] >= before.board[OwnHouse(before, pl)]

\* C1 Conservation: from a new game with s stones per pit and p pits per
\* player, after any sequence of make_move and check_game_over calls the
\* board has 2p+2 entries, none negative, that sum to 2*p*s; this also holds
\* of the board after the sowing loop and after the landing rule, and the
\* terminal sweep (called alone or at the end of make_move) only moves
\* stones from pits into houses.
C1_Conservation ==
    /\ WellFormed(state)
    /\ state.pits = last.pre.pits
    /\ Moved => /\ WellFormed(last.call.sown)
                /\ WellFormed(last.call.landed)
                /\ OnlyIntoHouses(last.call.turned, state)
    /\ last.op = "check_game_over" => OnlyIntoHouses(last.pre, state)

\* a move ended the game and its sweep carried stones into a house
C1_Witness ==
    /\ Moved /\ last.ret
    /\ initial_stones > 0
    /\ last.call.turned.board # state.board
    /\ Total(state.board) = 2 * state.pits * initial_stones

\* C2 Legality closure: make_move(i) returns for every i that legal_moves()
\* lists and raises the invalid-move error for every other index; the
\* indices that succeed are exactly the current player's own non-empty
\* pits, so an opponent's pit, a house, an empty own pit and an index out
\* of range all fail.
C2_LegalityClosure ==
    last.op = "make_move" =>
        LET pre == last.pre
            i == last.pit_index
        IN  /\ (i \in Elems(legal_moves(pre))) = ~last.raised
            /\ ~last.raised =
                  (/\ i \in OwnPits(pre, pre.current_player)
                   /\ pre.board[i] > 0)
            /\ i \in OwnPits(pre, 1 - pre.current_player) => last.raised
            /\ i \in {OwnHouse(pre, 0), OwnHouse(pre, 1)} => last.raised
            /\ i \notin DOMAIN pre.board => last.raised

\* a move from the mover's own non-empty house was refused
C2_Witness ==
    /\ Failed
    /\ last.pit_index = OwnHouse(last.pre, last.pre.current_player)
    /\ last.pre.board[last.pit_index] > 0

\* C3: a make_move call that raises the invalid-move error leaves the whole
\* object as it was: board, current_player and the other fields.
C3_FailedMoveUnchanged ==
    Failed => /\ state = last.pre
              /\ state.board = last.pre.board
              /\ state.current_player = last.pre.current_player

\* a move from a non-empty pit of the opponent was refused
C3_Witness ==
    /\ Failed
    /\ last.pit_index \in OwnPits(last.pre, 1 - last.pre.current_player)
    /\ last.pre.board[last.pit_index] > 0

\* C4 Turn switching: after a successful move by player m, current_player
\* is m exactly when the last stone landed in m's own house and 1-m
\* otherwise; from the default new game, moving pit 2 leaves player 0 to
\* move; legal_moves, check_game_over and get_winner never change
\* current_player.
C4_TurnSwitching ==
    /\ Moved =>
          LET m == last.pre.current_player
              inHouse == last.call.idx = OwnHouse(last.pre, m)
          IN  /\ (state.current_player = m) = inHouse
              /\ ~inHouse => state.current_player = 1 - m
    /\ (Moved /\ last.pre = Mancala(DefaultStones, DefaultPits)
              /\ last.pit_index = 2) => state.current_player = 0
    /\ last.op \in {"legal_moves", "check_game_over", "get_winner"} =>
          state.current_player = last.pre.current_player

\* player 1 sowed its last stone into its own house and moves again
C4_Witness ==
    /\ Moved
    /\ last.pre.current_player = 1
    /\ last.call.idx = OwnHouse(last.pre, 1)
    /\ state.current_player = 1
    /\ ~last.ret

\* the board cycle of a mover, the opponent's house removed: the place of
\* index j in the cycle and the index at place k
Place(self, player, j) == IF j < OwnHouse(self, 1 - player) THEN j ELSE j - 1
AtPlace(self, player, k) == IF k < OwnHouse(self, 1 - player) THEN k ELSE k + 1
CycleLen(self) == 2 * self.pits + 1

\* how many of the n stones sown from pit i fall on index j
Falls(self, player, i, n, j) ==
    Cardinality({k \in 1 .. n :
        (Place(self, player, i) + k) % CycleLen(self) = Place(self, player, j)})

\* C5 Sowing: a successful move from pit i holding n stones empties pit i and
\* puts n stones, one on each of the n positions that follow i in the cycle
\* of the board without the opponent's house (so pit i itself gets one when
\* the sowing laps the board); the last one falls n places after i, and the
\* opponent's house is left as it was.
C5_Sowing ==
    Moved =>
        LET pre == last.pre
            m == pre.current_player
            i == last.pit_index
            n == pre.board[i]
            sown == last.call.sown.board
            opp == OwnHouse(pre, 1 - m)
        IN  /\ last.call.stones = n
            /\ sown[opp] = pre.board[opp]
            /\ \A j \in DOMAIN sown \ {opp} :
                  sown[j] = (IF j = i THEN 0 ELSE pre.board[j])
                            + Falls(pre, m, i, n, j)
            /\ Total(sown) = Total(pre.board)
            /\ last.call.idx =
                  AtPlace(pre, m, (Place(pre, m, i) + n) % CycleLen(pre))
            /\ last.call.idx # opp

\* a sowing went past the opponent's house and round to the pit it started from
C5_Witness ==
    /\ Moved
    /\ last.call.stones >= CycleLen(last.pre)
    /\ last.call.sown.board[last.pit_index] >= 1
    /\ last.call.sown.board[OwnHouse(last.pre, 1 - last.pre.current_player)]
          = last.pre.board[OwnHouse(last.pre, 1 - last.pre.current_player)]

\* the last stone of the latest move fell in a pit of the mover's side that
\* was empty, and the pit opposite holds `some` stones / none
LandedInEmptyOwnPit ==
    /\ Moved
    /\ last.call.idx \in OwnPits(last.pre, last.pre.current_player)
    /\ last.call.sown.board[last.call.idx] = 1
OppositePit == 2 * last.pre.pits - last.call.idx

\* C6 Capture: when the last stone lands in an own pit that was empty (it
\* holds 1) and the opposite pit, index player1_house - 1 - landing index,
\* holds k > 0, the landing rule adds k + 1 to the mover's house and empties
\* both pits and touches nothing else; both pits are empty after the move.
\* The rule acts once, after the last stone: in every other case the board
\* after the landing rule is the board after the sowing.
C6_Capture ==
    Moved =>
        LET pre == last.pre
            m == pre.current_player
            idx == last.call.idx
            sown == last.call.sown.board
            landed == last.call.landed.board
            house == OwnHouse(pre, m)
        IN  /\ OppositePit = pre.player1_house - 1 - idx
            /\ IF LandedInEmptyOwnPit /\ sown[OppositePit] > 0
               THEN /\ landed[house] = sown[house] + sown[OppositePit] + 1
                    /\ landed[idx] = 0
                    /\ landed[OppositePit] = 0
                    /\ \A j \in DOMAIN sown \ {house, idx, OppositePit} :
                          landed[j] = sown[j]
                    /\ state.board[idx] = 0
                    /\ state.board[OppositePit] = 0
                    /\ state.board[house] >= landed[house]
               ELSE landed = sown
            /\ last.call.turned.board = landed

\* player 1 captured two or more stones
C6_Witness ==
    /\ LandedInEmptyOwnPit
    /\ last.pre.current_player = 1
    /\ last.call.sown.board[OppositePit] >= 2
    /\ last.call.landed.board[OwnHouse(last.pre, 1)]
          = last.call.sown.board[OwnHouse(last.pre, 1)]
            + last.call.sown.board[OppositePit] + 1

\* C7 No capture on an empty opposite pit: when the last stone lands in an
\* own pit that was empty and the opposite pit is empty too, the landing
\* rule changes nothing (the pit keeps its one stone, the mover's house
\* keeps its count) and the turn passes to the opponent; in a game played
\* from a new game such a move never ends the game, so the stone is still
\* in the pit, and the house unchanged, after the move.
C7_NoCaptureOnEmptyOpposite ==
    (LandedInEmptyOwnPit /\ last.call.sown.board[OppositePit] = 0) =>
        LET pre == last.pre
            m == pre.current_player
            idx == last.call.idx
            sown == last.call.sown.board
            landed == last.call.landed.board
        IN  /\ landed = sown
            /\ landed[idx] = 1
            /\ landed[OwnHouse(pre, m)] = sown[OwnHouse(pre, m)]
            /\ ~last.call.extra_turn
            /\ state.current_player = 1 - m
            /\ ~last.ret
            /\ state.board[idx] = 1
            /\ state.board[OwnHouse(pre, m)] = sown[OwnHouse(pre, m)]

\* a last stone fell in an empty own pit opposite an empty pit and play went on
C7_Witness ==
    /\ LandedInEmptyOwnPit
    /\ last.call.sown.board[OppositePit] = 0
    /\ ~last.ret
    /\ state.board[last.call.idx] = 1

\* what check_game_over owes: from `before` it returned ret and left `after`
SweepCorrect(before, after, ret) ==
    IF SideTotal(before, 0) = 0 \/ SideTotal(before, 1) = 0
    THEN /\ ret
         /\ \A i \in AllPits(before) : after.board[i] = 0
         /\ \A pl \in {0, 1} :
               after.board[OwnHouse(before, pl)]
                  = before.board[OwnHouse(before, pl)] + SideTotal(before, pl)
         /\ after = [before EXCEPT !.board = after.board]
    ELSE ~ret /\ after = before

\* C8 Terminal sweep: when the pits of a side sum to zero check_game_over
\* returns true, every pit is then 0 and each house has gained the stones
\* of its own side's pits; otherwise it returns false and changes nothing.
\* make_move returns this result for the position its move produced.
C8_TerminalSweep ==
    /\ last.op = "check_game_over" => SweepCorrect(last.pre, state, last.ret)
    /\ Moved => SweepCorrect(last.call.turned, state, last.ret)

\* check_game_over, called on its own, swept the stones left on player 1's
\* side while player 0's side was empty
C8_Witness ==
    /\ last.op = "check_game_over" /\ last.ret
    /\ SideTotal(last.pre, 0) = 0
    /\ SideTotal(last.pre, 1) > 0
    /\ state.board[OwnHouse(state, 1)]
          = last.pre.board[OwnHouse(state, 1)] + SideTotal(last.pre, 1)
    /\ SideTotal(state, 1) = 0

\* C9: check_game_over is idempotent: a call that directly follows another
\* check_game_over (made alone or at the end of make_move) returns what
\* that one returned and leaves the object as that one left it.
C9_CheckGameOverIdempotent ==
    (last.op = "check_game_over" /\ last.prev.by_check) =>
        /\ last.ret = last.prev.ret
        /\ state = last.pre

\* a second check_game_over after one that swept stones into the houses
C9_Witness ==
    /\ last.op = "check_game_over"
    /\ last.prev.by_check /\ last.prev.swept
    /\ last.ret
    /\ state = last.pre

\* C10: get_winner raises the not-terminal error exactly when each side has
\* a pit that is not empty, and whether it raises or returns it leaves the
\* board and current_player as they were.
C10_GetWinner ==
    last.op = "get_winner" =>
        /\ last.raised =
              (/\ \E i \in OwnPits(last.pre, 0) : last.pre.board[i] # 0
               /\ \E i \in OwnPits(last.pre, 1) : last.pre.board[i] # 0)
        /\ state.board = last.pre.board
        /\ state.current_player = last.pre.current_player
        /\ state = last.pre

\* get_winner answered on a position with one side empty and stones still
\* in the other side's pits
C10_Witness ==
    /\ last.op = "get_winner" /\ ~last.raised
    /\ SideTotal(last.pre, 0) > 0
    /\ SideTotal(last.pre, 1) = 0
    /\ state = last.pre

\* a player's total: own house plus the stones still in own pits
FinalTotal(self, player) ==
    self.board[OwnHouse(self, player)] + SideTotal(self, player)
HigherTotal(self) ==
    IF FinalTotal(self, 0) > FinalTotal(self, 1) THEN 0
    ELSE IF FinalTotal(self, 1) > FinalTotal(self, 0) THEN 1 ELSE -1

\* C11: on a position with one side empty get_winner returns the player
\* whose total (own house plus own pits) is strictly greater, -1 when the
\* totals are equal; and when check_game_over sweeps a position, get_winner
\* gives the same answer on the position before the sweep and after it.
C11_WinnerByTotals ==
    /\ (last.op = "get_winner" /\ ~last.raised) =>
          /\ last.ret = HigherTotal(last.pre)
          /\ last.ret \in {0, 1, -1}
    /\ (last.op = "check_game_over" /\ last.ret) =>
          /\ ~get_winner(last.pre).raised
          /\ ~get_winner(state).raised
          /\ get_winner(last.pre).ret = get_winner(state).ret
          /\ get_winner(state).ret = HigherTotal(last.pre)

\* a sweep after which the winner is not the player who had the fuller
\* house before it
C11_Witness ==
    /\ last.op = "check_game_over" /\ last.ret
    /\ last.pre.board # state.board
    /\ last.pre.board[OwnHouse(state, 0)] > last.pre.board[OwnHouse(state, 1)]
    /\ get_winner(last.pre).ret = 1
    /\ get_winner(state).ret = 1

\* C12: legal_moves returns, in strictly ascending order, exactly the
\* current player's own pits that hold a stone; never a house or a pit of
\* the opponent; the empty list exactly when the player's side is empty;
\* and it changes nothing.
C12_LegalMoves ==
    last.op = "legal_moves" =>
        LET pre == last.pre
            own == OwnPits(pre, pre.current_player)
            ret == last.ret
        IN  /\ \A k \in 1 .. (Len(ret) - 1) : ret[k] < ret[k + 1]
            /\ Elems(ret) = {i \in own : pre.board[i] >= 1}
            /\ Elems(ret) \cap {OwnHouse(pre, 0), OwnHouse(pre, 1)} = {}
            /\ Elems(ret) \cap OwnPits(pre, 1 - pre.current_player) = {}
            /\ (ret = <<>>) = (SideTotal(pre, pre.current_player) = 0)
            /\ state = pre

\* player 1 has two or more pits to choose from, an empty pit of its own,
\* and stones in player 0's house
C12_Witness ==
    /\ last.op = "legal_moves"
    /\ last.pre.current_player = 1
    /\ Len(last.ret) >= 2
    /\ \E i \in OwnPits(last.pre, 1) : last.pre.board[i] = 0
    /\ last.pre.board[OwnHouse(last.pre, 0)] > 0

\* the boards of the scenario, as Python lists from index 0
ListBoard(seq) == [i \in 0 .. (Len(seq) - 1) |-> seq[i + 1]]
ScenarioStart == ListBoard(<<4, 4, 4, 4, 4, 4, 0, 4, 4, 4, 4, 4, 4, 0>>)
ScenarioClaimed == ListBoard(<<4, 4, 0, 5, 5, 5, 1, 5, 4, 4, 4, 4, 4, 0>>)
ScenarioActual == ListBoard(<<4, 4, 0, 5, 5, 5, 1, 4, 4, 4, 4, 4, 4, 0>>)
DefaultGame == Mancala(DefaultStones, DefaultPits)
\* the indices whose count a sowing raised
SownInto(call, pre) ==
    {j \in DOMAIN pre.board : call.sown.board[j] > pre.board[j]}

\* C13 as stated: the default new game has the board ScenarioStart and the
\* legal moves 0..5; move 2 sows into 3, 4, 5, 6 and 7 and gives the board
\* [4,4,0,5,5,5,1,5,4,4,4,4,4,0], player 0 to move.
C13_ScenarioAsStated ==
    /\ DefaultGame.board = ScenarioStart
    /\ (last.op = "legal_moves" /\ last.pre = DefaultGame) =>
          last.ret = <<0, 1, 2, 3, 4, 5>>
    /\ (Moved /\ last.pre = DefaultGame /\ last.pit_index = 2) =>
          /\ SownInto(last.call, last.pre) = {3, 4, 5, 6, 7}
          /\ state.board = ScenarioClaimed
          /\ state.current_player = 0

\* C13 amended: the default new game has the board ScenarioStart and the
\* legal moves 0..5; move 2 sows its four stones into 3, 4, 5 and 6 (the
\* house), index 7 keeps its 4 stones, the board is
\* [4,4,0,5,5,5,1,4,4,4,4,4,4,0] and player 0 moves again.
C13_Scenario ==
    /\ DefaultGame.board = ScenarioStart
    /\ (last.op = "new" /\ state.pits = DefaultPits
           /\ initial_stones = DefaultStones) =>
          /\ state = DefaultGame
          /\ state.current_player = 0
    /\ (last.op = "legal_moves" /\ last.pre = DefaultGame) =>
          last.ret = <<0, 1, 2, 3, 4, 5>>
    /\ (Moved /\ last.pre = DefaultGame /\ last.pit_index = 2) =>
          /\ SownInto(last.call, last.pre) = {3, 4, 5, 6}
          /\ last.call.idx = 6
          /\ state.board = ScenarioActual
          /\ state.current_player = 0
          /\ ~last.ret

\* move 2 was played from the default new game
C13_Witness ==
    /\ Moved /\ last.pre = DefaultGame /\ last.pit_index = 2
    /\ state.board = ScenarioActual
    /\ Total(state.board) = 2 * DefaultPits * DefaultStones

\* player 0 has just played pit 1, which held exactly one stone
PlayedPit1 ==
    /\ Moved
    /\ last.pre.current_player = 0
    /\ last.pit_index = 1
    /\ last.pre.board[1] = 1
\* the pit opposite pit j
Opposite(self, j) == 2 * self.pits - j

\* C14 as stated: when player 0 plays pit 1 holding exactly 1 stone while
\* the pit opposite pit 1 is non-empty, player 0's house grows by the
\* stones of that opposite pit plus 1 and pit 1 and that opposite pit read 0.
C14_CaptureTestAsStated ==
    (PlayedPit1 /\ last.pre.board[Opposite(last.pre, 1)] > 0) =>
        /\ state.board[OwnHouse(state, 0)]
              = last.pre.board[OwnHouse(state, 0)]
                + last.pre.board[Opposite(last.pre, 1)] + 1
        /\ state.board[1] = 0
        /\ state.board[Opposite(last.pre, 1)] = 0

\* C14 amended: the stone from pit 1 lands in pit 2, so the capture is
\* decided there. When player 0 plays pit 1 holding exactly 1 stone while
\* pit 2 is an empty pit of player 0 and the pit opposite pit 2 holds k > 0,
\* the capture adds k + 1 to player 0's house and pit 1, pit 2 and that
\* opposite pit read 0 after the move; the house then holds k + 1 more than
\* before, and when the move ends the game also the stones the sweep takes
\* from player 0's own pits.
C14_CaptureTest ==
    (/\ PlayedPit1
     /\ 2 \in OwnPits(last.pre, 0)
     /\ last.pre.board[2] = 0
     /\ last.pre.board[Opposite(last.pre, 2)] > 0) =>
        LET pre == last.pre
            k == pre.board[Opposite(pre, 2)]
            house == OwnHouse(pre, 0)
        IN  /\ last.call.idx = 2
            /\ last.call.landed.board[house] = pre.board[house] + k + 1
            /\ state.board[house] =
                  pre.board[house] + k + 1
                  + (IF last.ret THEN SideTotal(last.call.landed, 0) ELSE 0)
            /\ state.board[1] = 0
            /\ state.board[2] = 0
            /\ state.board[Opposite(pre, 2)] = 0

\* the stone from pit 1 captured from the pit opposite pit 2, and play goes on
C14_Witness ==
    /\ PlayedPit1
    /\ 2 \in OwnPits(last.pre, 0)
    /\ last.pre.board[2] = 0
    /\ last.pre.board[Opposite(last.pre, 2)] > 0
    /\ last.pre.board[Opposite(last.pre, 1)] > 0
    /\ state.board[OwnHouse(state, 0)]
          = last.pre.board[OwnHouse(state, 0)]
            + last.pre.board[Opposite(last.pre, 2)] + 1

(* ------------------------------------------------------ the search engine *)

Searched == last.op = "choose_best_move"

\* the pits the player to move may play, from the layout
Playable(self) ==
    {i \in OwnPits(self, self.current_player) : self.board[i] >= 1}

Terminal(self) == SideTotal(self, 0) = 0 \/ SideTotal(self, 1) = 0

\* the position after the player to move plays pit m
After(self, m) == make_move(self, m).self

\* the search value of move m at the root: the full window, the depth kept
\* when the mover moves again and lowered by one otherwise, maximizing when
\* the root's player is to move
RootValue(self, depth, m) ==
    LET child == After(self, m)
    IN  alpha_beta(child,
                   IF child.current_player = self.current_player
                   THEN depth ELSE depth - 1,
                   0 - math_inf, math_inf,
                   child.current_player = self.current_player,
                   self.current_player)

\* C15: choose_best_move returns none exactly when the position has no
\* legal move; otherwise it returns one of the legal moves, and make_move
\* accepts it.
C15_BestMoveIsLegal ==
    Searched =>
        /\ (last.ret = <<>>) = (legal_moves(last.pre) = <<>>)
        /\ (last.ret = <<>>) = (Playable(last.pre) = {})
        /\ last.ret # <<>> =>
              /\ Len(last.ret) = 1
              /\ last.ret[1] \in Elems(legal_moves(last.pre))
              /\ last.ret[1] \in Playable(last.pre)
              /\ ~make_move(last.pre, last.ret[1]).raised

\* a move is returned although every move has a negative search value
C15_Witness ==
    /\ Searched
    /\ last.depth >= 1
    /\ Cardinality(Playable(last.pre)) >= 2
    /\ last.ret # <<>>
    /\ \A m \in Playable(last.pre) : RootValue(last.pre, last.depth, m) < 0

\* C16: the move choose_best_move returns has the greatest search value of
\* all legal moves, and of the moves with that value it is the one with the
\* lowest pit index.
C16_BestMoveFirstOnTies ==
    (Searched /\ last.ret # <<>>) =>
        LET pre == last.pre
            best == last.ret[1]
        IN  /\ best \in Playable(pre)
            /\ \A m \in Playable(pre) :
                  /\ RootValue(pre, last.depth, m) <= RootValue(pre, last.depth, best)
                  /\ RootValue(pre, last.depth, m) = RootValue(pre, last.depth, best)
                        => best <= m

\* in a game under way, searched two plies ahead, two moves that lead to
\* different boards share the greatest value, and the lower pit is returned
C16_Witness ==
    /\ Searched
    /\ last.depth >= 2
    /\ last.ret # <<>>
    /\ initial_stones >= 2
    /\ moves >= 1
    /\ ~Terminal(last.pre)
    /\ \E m \in Playable(last.pre) :
          /\ m > last.ret[1]
          /\ After(last.pre, m).board # After(last.pre, last.ret[1]).board
          /\ RootValue(last.pre, last.depth, m)
                = RootValue(last.pre, last.depth, last.ret[1])

Max(S) == CHOOSE x \in S : \A y \in S : y <= x
Min(S) == CHOOSE x \in S : \A y \in S : x <= y

\* plain depth-limited minimax: no window, no cut-off
RECURSIVE minimax(_, _, _, _)
minimax(self, depth, maximizing, player) ==
    IF depth = 0 \/ Terminal(self) THEN evaluate(self, player).ret
    ELSE LET values ==
                 {LET child == After(self, m)
                  IN  minimax(child,
                              IF child.current_player = self.current_player
                              THEN depth ELSE depth - 1,
                              child.current_player = player, player)
                  : m \in Playable(self)}
         IN  IF maximizing THEN Max(values) ELSE Min(values)

\* C17: called with the full window, alpha_beta returns the value of plain
\* minimax of the same depth, flag and player.
C17_PruningKeepsValue ==
    last.op = "alpha_beta" =>
        last.ret = minimax(last.pre, last.depth, last.maximizing, last.player)

\* the positions the moves of a position lead to
Children(self) == {After(self, m) : m \in Playable(self)}

\* the minimax value of the child of `self` by move m, searched from `self`
\* with `depth` for `player`
ChildValue(self, depth, m, player) ==
    LET child == After(self, m)
    IN  minimax(child,
                IF child.current_player = self.current_player
                THEN depth ELSE depth - 1,
                child.current_player = player, player)

\* a search of two plies that cuts off: the first move m1 and a later move
\* m2 both pass the turn; the first reply g1 to m2 is worth no more than m1,
\* so the loop over the replies to m2 breaks, and the reply g2 it leaves out
\* is worth less than g1
C17_Witness ==
    /\ last.op = "alpha_beta"
    /\ last.depth = 2
    /\ last.maximizing
    /\ last.player = last.pre.current_player
    /\ ~Terminal(last.pre)
    /\ \E m1, m2 \in Playable(last.pre) :
          LET c1 == After(last.pre, m1)
              c2 == After(last.pre, m2)
          IN  /\ m1 < m2
              /\ c1.current_player # last.pre.current_player
              /\ c2.current_player # last.pre.current_player
              /\ ~Terminal(c2)
              /\ \E g1, g2 \in Playable(c2) :
                    /\ g1 < g2
                    /\ \A g \in Playable(c2) : g1 <= g
                    /\ ChildValue(c2, 1, g1, last.player)
                          <= ChildValue(last.pre, 2, m1, last.player)
                    /\ ChildValue(c2, 1, g2, last.player)
                          < ChildValue(c2, 1, g1, last.player)
    /\ last.ret = minimax(last.pre, last.depth, last.maximizing, last.player)

\* C18: choose_best_move leaves the position it is given as it was, and the
\* copy clone_state makes has the fields of the original and a board of its
\* own.
C18_CallerStateUntouched ==
    Searched =>
        /\ state.board = last.pre.board
        /\ state.current_player = last.pre.current_player
        /\ state = last.pre
        /\ ~clone_state(last.pre).board_shared
        /\ clone_state(last.pre).new = last.pre

\* a search of a position whose every move changes the board of the copy
C18_Witness ==
    /\ Searched
    /\ last.depth >= 1
    /\ last.ret # <<>>
    /\ Cardinality(Playable(last.pre)) >= 2
    /\ \A c \in Children(last.pre) : c.board # last.pre.board
    /\ state = last.pre

\* C19: evaluate returns 999999, 0 or -999999 on a position with an empty
\* side, as the player is the one with the greater total, the totals are
\* equal, or the player has the smaller total; on any other position it
\* returns ten times the difference of the houses plus the difference of
\* the stones in the pits, own minus opponent's.
C19_Evaluate ==
    last.op = "evaluate" =>
        LET pre == last.pre
            me == last.player
            opp == 1 - last.player
        IN  IF Terminal(pre)
            THEN last.ret = (IF HigherTotal(pre) = me THEN 999999
                             ELSE IF HigherTotal(pre) = -1 THEN 0
                             ELSE -999999)
            ELSE last.ret = 10 * (pre.board[OwnHouse(pre, me)]
                                  - pre.board[OwnHouse(pre, opp)])
                            + (SideTotal(pre, me) - SideTotal(pre, opp))

\* a position in play where the player is ahead in the house and behind in
\* the pits
C19_Witness ==
    /\ last.op = "evaluate"
    /\ ~Terminal(last.pre)
    /\ last.pre.board[OwnHouse(last.pre, last.player)]
          > last.pre.board[OwnHouse(last.pre, 1 - last.player)]
    /\ SideTotal(last.pre, last.player) < SideTotal(last.pre, 1 - last.player)
    /\ last.ret > 0

\* the stones still in the pits
InPlay(self) == SideTotal(self, 0) + SideTotal(self, 1)

\* the way the stones in the pits have to go to their owner's house
RECURSIVE WayToHouse(_, _, _)
WayToHouse(self, player, pitset) ==
    IF pitset = {} THEN 0
    ELSE LET i == CHOOSE j \in pitset : TRUE
         IN  self.board[i] * (OwnHouse(self, player) - i)
             + WayToHouse(self, player, pitset \ {i})
Way(self) ==
    WayToHouse(self, 0, OwnPits(self, 0)) + WayToHouse(self, 1, OwnPits(self, 1))

\* C20: every move either takes stones out of the pits, or leaves as many
\* in the pits and shortens their way to the house; both are bounded below,
\* so no position comes back and play ends. A position that is not over
\* has a legal move, and a position that is over has none for the player
\* whose side is empty.
C20_Termination ==
    /\ InPlay(state) >= 0 /\ Way(state) >= 0
    /\ ~Terminal(state) => legal_moves(state) # <<>>
    /\ Moved =>
          \/ InPlay(state) < InPlay(last.pre)
          \/ /\ InPlay(state) = InPlay(last.pre)
             /\ Way(state) < Way(last.pre)

\* a move that keeps every stone in the pits, in a game that goes on
C20_Witness ==
    /\ Moved
    /\ ~last.ret
    /\ InPlay(state) = InPlay(last.pre)
    /\ Way(state) < Way(last.pre)
    /\ last.pre.board[OwnHouse(state, 0)] + last.pre.board[OwnHouse(state, 1)] > 0

\* the loop of simulate_ai.py lines 74-78 exits on this object: check_game_over
\* returned True, or choose_best_move found no legal move and returned None
LoopExits(self) == check_game_over(self).ret \/ legal_moves(self) = <<>>

\* C27 Terminal states are always swept: in every state reached from a new
\* game with at least one stone per pit, if the pits of either side are all
\* empty then every pit of both sides is empty; so legal_moves() is empty
\* exactly when the game is over, a check_game_over between two moves leaves
\* the board as it was, and get_winner called where the simulator's loop exits
\* does not raise.
C27_TerminalSwept ==
    initial_stones >= 1 =>
        /\ one_side_empty(state) => \A i \in AllPits(state) : state.board[i] = 0
        /\ (legal_moves(state) = <<>>) <=> one_side_empty(state)
        /\ last.op = "check_game_over" => state.board = last.pre.board
        /\ LoopExits(state) => ~get_winner(check_game_over(state).self).raised
        /\ last.op = "get_winner" /\ LoopExits(last.pre) => ~last.raised

\* a move of a game with stones that emptied one side and swept the other
C27_Witness ==
    /\ initial_stones >= 1
    /\ Moved
    /\ last.ret
    /\ last.call.turned.board # state.board
    /\ SideTotal(last.call.turned, 0) + SideTotal(last.call.turned, 1) >= 2

\* C28 Houses only grow: over every make_move and every check_game_over
\* neither house loses a stone, and a move that does not end the game leaves
\* the house of the mover's opponent as it was.
C28_HousesOnlyGrow ==
    /\ last.op \in {"make_move", "check_game_over"} =>
          \A pl \in {0, 1} :
              state.board[OwnHouse(state, pl)]
                  >= last.pre.board[OwnHouse(state, pl)]
    /\ Moved /\ ~last.ret =>
          state.board[OwnHouse(state, 1 - last.pre.current_player)]
              = last.pre.board[OwnHouse(state, 1 - last.pre.current_player)]

\* a capture in a game that goes on: the mover's house grew by two or more
\* while the opponent's house held stones
C28_Witness ==
    /\ Moved
    /\ ~last.ret
    /\ state.board[OwnHouse(state, last.pre.current_player)]
          >= last.pre.board[OwnHouse(state, last.pre.current_player)] + 2
    /\ state.board[OwnHouse(state, 1 - last.pre.current_player)] >= 1

\* C29 alpha_beta and evaluate leave their argument alone: after evaluate or
\* alpha_beta (at any depth) was called on the object, its board and its
\* current_player are what they were before the call, even when one side was
\* empty and the other had not been swept. The code does not keep this:
\* evaluate (line 30) and alpha_beta (line 87) call check_game_over on the
\* object they were given, and that call sweeps it.
C29_ArgumentUnchanged ==
    last.op \in {"evaluate", "alpha_beta"} =>
        /\ state.board = last.pre.board
        /\ state.current_player = last.pre.current_player

(* ------------------------------------------------ the calls of one search *)

\* One call of alpha_beta, as the loop that made it saw it: the arguments
\* node, depth, maximizing and player, the player to move and the depth at
\* the node whose loop made the call (the root of choose_best_move included),
\* the number of changes of the player to move and the number of moves on
\* the way from the root, and whether the call goes past lines 87-92 into one of its loops.
Call(from, c, player, turns, ply) ==
    [node |-> c.node, depth |-> c.new_depth, maximizing |-> c.next_max,
     player |-> player,
     from_player |-> from.node.current_player, from_depth |-> from.depth,
     turns |-> IF c.node.current_player = from.node.current_player
               THEN turns ELSE turns + 1,
     ply |-> ply,
     expands |-> /\ c.new_depth # 0
                 /\ ~check_game_over(c.node).ret
                 /\ legal_moves(c.node) # <<>>]

\* the calls of alpha_beta made, directly or further down, by the loop of the
\* call alpha_beta(node, depth, alpha, beta, maximizing, player): the pass of
\* the k-th legal move is made when the loop has not left by break before it,
\* with the alpha and beta the k-1 passes before it left
RECURSIVE calls_below(_, _, _, _, _, _, _, _)
calls_below(node, depth, alpha, beta, maximizing, player, turns, ply) ==
    LET over == IF depth = 0 THEN [self |-> node, ret |-> FALSE]
                ELSE check_game_over(node)
        legal == legal_moves(over.self)
        at(k) == IF maximizing
                 THEN max_loop(over.self, legal, k - 1, depth, alpha, beta, player)
                 ELSE min_loop(over.self, legal, k - 1, depth, alpha, beta, player)
        pass(k) ==
            LET c == child_of(over.self, legal[k], depth, player)
                call == Call([node |-> over.self, depth |-> depth], c, player, turns,
                             ply + 1)
            IN  {call} \cup calls_below(c.node, c.new_depth, at(k).alpha,
                                        at(k).beta, c.next_max, player,
                                        call.turns, call.ply)
    IN  IF depth = 0 \/ over.ret \/ legal = <<>> THEN {}
        ELSE UNION {IF at(k).broke THEN {} ELSE pass(k) : k \in 1 .. Len(legal)}

\* the calls of alpha_beta made by choose_best_move(node, depth): lines 147-153
\* make one for every legal move, with the full window
calls_of(node, depth) ==
    LET legal == legal_moves(node)
        player == node.current_player
        pass(k) ==
            LET c == child_of(node, legal[k], depth, player)
                call == Call([node |-> node, depth |-> depth], c, player, 0, 1)
            IN  {call} \cup calls_below(c.node, c.new_depth, 0 - math_inf,
                                        math_inf, c.next_max, player, call.turns,
                                        call.ply)
    IN  UNION {pass(k) : k \in 1 .. Len(legal)}

\* the calls of the search that was just made
SearchCalls == IF Searched THEN calls_of(last.pre, last.depth) ELSE {}

\* C24 Maximizing flag: in every search started by choose_best_move, at every
\* call of alpha_beta the flag maximizing is true exactly when the player to
\* move at the node is the player the search evaluates for, and that player
\* is the one to move at the root.
C24_MaximizingFlag ==
    \A c \in SearchCalls :
        /\ c.player = last.pre.current_player
        /\ c.maximizing = (c.node.current_player = c.player)

\* a search in which a maximizing node is reached from a maximizing node (an
\* extra turn of the searching player) and a minimizing node from a
\* minimizing one (an extra turn of the opponent)
C24_Witness ==
    /\ Searched
    /\ last.depth >= 1
    /\ \E c \in SearchCalls :
          /\ c.maximizing
          /\ c.from_player = c.player
    /\ \E c \in SearchCalls :
          /\ ~c.maximizing
          /\ c.from_player # c.player

\* C25 Extra-turn-aware depth accounting: every call of the search, the ones
\* at the root included, has the depth of the node that made it when the move
\* left the same player to move, and that depth minus one otherwise; so the
\* depth of a call is the depth choose_best_move was given minus the number of
\* changes of the player to move on the way to it.
C25_DepthAccounting ==
    \A c \in SearchCalls :
        /\ c.depth = IF c.node.current_player = c.from_player
                     THEN c.from_depth ELSE c.from_depth - 1
        /\ c.depth = last.depth - c.turns

\* a search with a chain of two extra turns that cost no depth, and a call
\* one level down that cost one
C25_Witness ==
    /\ Searched
    /\ last.depth >= 1
    /\ \E c \in SearchCalls :
          /\ c.ply = 2
          /\ c.turns = 0
          /\ c.depth = last.depth
    /\ \E c \in SearchCalls : c.turns = 1 /\ c.depth = last.depth - 1

\* C26 Depth budget: for choose_best_move(state, depth) with depth >= 0, every
\* call of the search has a depth from 0 to depth, and a call with depth 0
\* goes into no loop. The code does not keep this for depth 0: the children of
\* the root are then searched with depth -1 (line 152), which the test
\* depth == 0 of line 87 never stops.
C26_DepthBudget ==
    \A c \in SearchCalls :
        /\ 0 <= c.depth
        /\ c.depth <= last.depth
        /\ c.depth = 0 => ~c.expands

AfterStones(self, i, k) ==
    [j \in DOMAIN self.board |->
        IF j = OwnHouse(self, 1 - self.current_player) THEN self.board[j]
        ELSE (IF j = i THEN 0 ELSE self.board[j])
             + Falls(self, self.current_player, i, k, j)]

\* C22 Per-stone observer: a make_move of a pit holding n stones calls the
\* observer n times; the k-th call has the index the k-th stone fell on, k
\* places after the pit in the cycle without the opponent's house, and the
\* board with k stones put down and the others not yet; the object after the
\* move and the value returned are those of the same move made without an
\* observer. A make_move that raises calls it never.
C22_Observer ==
    last.op = "make_move_animated" =>
        LET pre == last.pre
            m == pre.current_player
            i == last.pit_index
            calls == last.call.calls
        IN  IF last.raised
            THEN calls = <<>> /\ make_move(pre, i).raised /\ state = pre
            ELSE /\ Len(calls) = pre.board[i]
                 /\ \A k \in 1 .. Len(calls) :
                       /\ calls[k].idx =
                             AtPlace(pre, m, (Place(pre, m, i) + k) % CycleLen(pre))
                       /\ calls[k].idx # OwnHouse(pre, 1 - m)
                       /\ calls[k].board = AfterStones(pre, i, k)
                 /\ ~make_move(pre, i).raised
                 /\ state = make_move(pre, i).self
                 /\ last.ret = make_move(pre, i).ret

\* an observed move that sowed past the opponent's house and captured, so that
\* the board after the move is not the board of the last call
C22_Witness ==
    /\ last.op = "make_move_animated"
    /\ ~last.raised
    /\ Len(last.call.calls) >= 3
    /\ \E k \in 1 .. (Len(last.call.calls) - 1) :
          /\ last.call.calls[k].idx
                < OwnHouse(last.pre, 1 - last.pre.current_player)
          /\ last.call.calls[k + 1].idx
                > OwnHouse(last.pre, 1 - last.pre.current_player)
    /\ state.board # last.call.calls[Len(last.call.calls)].board

\* C23 Background moves in the UI: the search of a worker leaves the game
\* state as it is; while a worker is between lifting the stones of its move
\* and the end of make_move, check_game_over of the main loop does not change
\* the board; and when the worker has finished, the game state is the one
\* make_move gives from the state the worker started on. The code does not
\* keep the last two: lines 321 and 355 call state.check_game_over() on every
\* frame, without a lock and whether or not a worker is sowing, and when the
\* mover has lifted the stones of the only pit of its side that held any, the
\* call finds that side empty and sweeps the other.
C23_BackgroundMove ==
    /\ last.op = "choose" => state = last.pre
    /\ last.op = "check_game_over" /\ last.sowing => state.board = last.pre.board
    /\ last.op = "done" /\ ~last.own =>
          state = make_move(last.pre, last.move).self

\* a 'done' is on the queue; the UI is running
DoneQueued == \E k \in DOMAIN ui.anim_queue : ui.anim_queue[k].kind = "done"
Playing == ui # NoUI /\ ui.pc # "exited"

\* C30 At most one background move in flight: at most one worker is alive, and
\* only while animating is true; animating is true only while a worker is
\* alive or its 'done' is on the queue; a click, an AI move or Reset takes
\* effect only when no worker is alive, and no worker works on an object that
\* is no longer the game's; every worker that has started puts 'done' on the
\* queue, and animating, once true, becomes false again, unless the program
\* is quit before.
C30_OneWorkerSafe ==
    Playing =>
        /\ Len(ui.workers) <= 1
        /\ ui.workers # <<>> => ui.animating
        /\ ui.animating => (ui.workers # <<>>) # DoneQueued
        /\ \A i \in DOMAIN ui.workers : ~ui.workers[i].own
        /\ last.op \in {"start", "reset"} => last.alive = 0
        /\ last.op # "raised"

C30_OneWorker ==
    /\ []C30_OneWorkerSafe
    /\ (Playing /\ ui.workers # <<>>) ~> (DoneQueued \/ ~Playing)
    /\ (Playing /\ ui.animating) ~> (~ui.animating \/ ~Playing)

\* the second move of a run is being sown while the main loop is at its events
C30_Witness ==
    /\ Playing
    /\ ui.running
    /\ moves = 2
    /\ ui.pc = "events"
    /\ Len(ui.workers) = 1
    /\ ui.workers[1].pc = "sow"
    /\ ui.workers[1].stones >= 1
    /\ ui.anim_queue # <<>>
    /\ legal_moves(state) # <<>>

\* the stones of the game that was started: T = 2 * p * s
GameTotal == 2 * state.pits * initial_stones

Abs(n) == IF n < 0 THEN 0 - n ELSE n

\* C31 The terminal score dominates the heuristic: evaluate called on a state
\* of a game started with T stones in which neither side is empty returns a
\* value of magnitude at most 11 * T, and 11 * T is below 999999, so the value
\* lies strictly between the lost and the won score. The code does not keep
\* this for every new game: the scores of lines 15-17 are fixed numbers, while
\* Mancala takes any number of stones and pits, and from T = 90910 on 11 * T
\* is no longer below 999999.
C31_TerminalDominates ==
    last.op = "evaluate" /\ ~one_side_empty(last.pre) =>
        /\ Abs(last.ret) <= 11 * GameTotal
        /\ 11 * GameTotal < WIN_SCORE
        /\ LOSE_SCORE < last.ret
        /\ last.ret < WIN_SCORE

====
